---- MODULE Spec2Model ----
(***************************************************************************)
(* comm::Server of FssFMI (src/src/comm/server.cpp): a listening endpoint  *)
(* that accepts a peer and exchanges uint32_t scalars, length-prefixed     *)
(* vectors and fixed arrays of 2 or 4 values over a stream socket.         *)
(*                                                                         *)
(* The model has the Server object ("srv"), the descriptor table of its    *)
(* process, and the remote endpoints (Peers), which run the same codec     *)
(* routines on their end of the connection.  Every OS call is one step, so *)
(* partial transfers, errors and closes interleave as the kernel allows.   *)
(*                                                                         *)
(* internal::SendData / internal::RecvData and server.hpp are not part of  *)
(* the sources at hand; SendDataStep / RecvDataStep and the initial field  *)
(* values follow section 4.1 and 4.3 of the specification.                 *)
(***************************************************************************)
EXTENDS Integers, Sequences, FiniteSets, TLC

(* ------------------------------ bounds -------------------------------- *)

\* Longest vector a caller passes to SendVector / RecvVector.
MaxLen == 2
\* Codec operations the server's caller starts in one behaviour, and those
\* a remote endpoint starts.
MaxOps == 1
MaxPeerOps == 1
\* One OS call moves everything it can, or a positive multiple of Chunk bytes.
Chunk == 4
\* Highest descriptor number the server process can be given.
MaxFd == 5
\* A declared size of this many bytes or more is more than can arrive in one
\* behaviour; all such sizes are kept as this one.
HugeSize == 1073741824
\* Greatest byte count that a remote process which writes bytes of its own
\* making declares in front of them.
MaxDeclared == 6
\* Codec operations that each end of the connection performs one after the
\* other where the order of the values on the stream is looked at.
MaxSeq == 2

(* ------------------------- program constants -------------------------- *)

\* sizeof(uint32_t)
SizeofU32 == 4
\* sizeof(std::size_t)
SizeofSizeT == 8
\* EXIT_FAILURE
ExitFailure == 1
\* The wait status of a process that abort() ended: 128 + SIGABRT.
Aborted == 128 + 6
\* listen(server_fd_, 3)
Backlog == 3
\* The "not open" value of a descriptor field (also what socket() and
\* accept() return on failure).
NotOpen == -1

(* ------------------------------ domains ------------------------------- *)

Peers == {"p1", "p2"}
Ends == {"srv"} \cup Peers
\* Descriptor numbers: 0, 1, 2 are the standard streams.
Fds == 3..MaxFd
\* uint32_t payloads the callers use; the second has four distinct bytes
\* and, read as a byte count, is more than HugeSize.
Values == {1, 1090650884}
Vectors == UNION {[1..n -> Values] : n \in 0..MaxLen}
Arrays2 == [1..2 -> Values]
Arrays4 == {<<1, 1090650884, 1, 1090650884>>, <<1090650884, 1, 1090650884, 1>>}
\* What a caller's out-parameter holds before a receive: a scalar, an array
\* of n elements, a vector (empty, or of the greatest length).
StaleValue == 84281096
Stale(n) == {[i \in 1..n |-> StaleValue]}
StaleVectors == {<<>>, [i \in 1..MaxLen |-> StaleValue]}
\* A byte that no encoding of Values or of StaleValue contains.
RawByte == 7
\* The remote endpoints that connect in the main specification.
FirstPeers == {"p1"}

(* --------------------- memory representation -------------------------- *)

\* The n bytes of the object holding x, lowest address first (the host is
\* little-endian, as in the specification's example 0C 00 00 00 ...).
RECURSIVE ToBytes(_, _)
ToBytes(x, n) ==
  IF n = 0 THEN <<>> ELSE <<x % 256>> \o ToBytes(x \div 256, n - 1)

\* The unsigned integer a run of bytes holds.
RECURSIVE FromBytes(_)
FromBytes(bs) ==
  IF bs = <<>> THEN 0 ELSE bs[1] + 256 * FromBytes(Tail(bs))

\* The std::size_t that sizeof(std::size_t) bytes hold, see HugeSize.
FromSize(bs) ==
  IF \A i \in 5..Len(bs) : bs[i] = 0
  THEN (IF bs[4] < 64 THEN FromBytes(SubSeq(bs, 1, 4)) ELSE HugeSize)
  ELSE HugeSize

\* The bytes of vector.data() / array.data(): the elements back to back.
RECURSIVE DataBytes(_)
DataBytes(xs) ==
  IF xs = <<>> THEN <<>> ELSE ToBytes(xs[1], SizeofU32) \o DataBytes(Tail(xs))

\* The uint32_t elements that a buffer of bytes holds.
WordsOf(bs) ==
  [i \in 1..(Len(bs) \div SizeofU32) |->
     FromBytes(SubSeq(bs, SizeofU32 * (i - 1) + 1, SizeofU32 * i))]

\* What a remote process of another make puts on the wire for RecvVector:
\* a declared size of its choosing, then that many bytes; or a size of
\* more bytes than it will ever write.
RawMessages ==
  {ToBytes(size, SizeofSizeT) \o [i \in 1..size |-> RawByte] :
     size \in 0..MaxDeclared}
  \cup {DataBytes(<<1, 1090650884>>)}

(* ----------------------- 32-bit byte counter -------------------------- *)

\* A natural number as <<high, low>> limbs of 16 bits; a uint32_t keeps the
\* high limb below 2^16, the ghost sum of wire bytes does not.
Limb == 256 * 256
ZeroCount == <<0, 0>>
AddExact(c, n) == <<c[1] + (c[2] + n) \div Limb, (c[2] + n) % Limb>>
AddU32(c, n) == <<(c[1] + (c[2] + n) \div Limb) % Limb, (c[2] + n) % Limb>>

VARIABLES
  server_fd_,         \* Server::server_fd_
  client_fd_,         \* Server::client_fd_
  total_bytes_sent_,  \* Server::total_bytes_sent_, a uint32_t in limbs
  fdtab,              \* the server process's descriptors: "free", a socket
                      \* on its way to listening ("sock", "reuse", "bound",
                      \* "listen"), or the peer a connected socket leads to
  proc,               \* "running" | "exited"
  status,             \* the exit status once exited
  obj,                \* "alive" | "destroyed" (the Server object)
  peerSide,           \* per peer: "new" | "open" | "closed"
  srvSide,            \* per peer: "none" | "backlog" | "open" | "closed"
  backlog,            \* connections waiting for accept()
  s2c,                \* per peer: bytes in flight from srv to the peer
  c2s,                \* per peer: bytes in flight from the peer to srv
  opk,                \* per endpoint: the codec operation running or last run
  pcs,                \* per endpoint: "idle" | "io1" | "io2" | "exited"
  var,                \* per endpoint: the caller's argument (value, vector, array)
  buf,                \* per endpoint: the buffer of the transfer under way
  len,                \* per endpoint: the length asked of that transfer
  off,                \* per endpoint: bytes of it moved so far
  ok,                 \* per endpoint: is_sent / is_received
  sys,                \* per endpoint: the transfer under way made an OS call
  calls,              \* per endpoint: the transfers that returned in its last step
  wire,               \* per endpoint: bytes the OS took from the operation, for
                      \* as long as no transfer of it has failed
  res,                \* per endpoint: "none" | "ok" | "fatal" | "aborted", the
                      \* last operation
  died,               \* the handler that called exit(), "" while running
  failed,             \* the OS call of Setup / Start that failed, "" if none
  closes,             \* descriptors that handler passed to close() first
  doubleClose,        \* close() was issued on a number already closed
  closeCalled,        \* ghost: Server::CloseSocket has run on the object
  exact,              \* ghost: exact sum of wire bytes of successful sends
  log,                \* ghost: per peer, what each side sent and received
  cut,                \* ghost: per endpoint, the remote closed during the operation
  nops                \* per endpoint: codec operations it may still start

objVars == <<server_fd_, client_fd_, total_bytes_sent_>>
osVars ==
  <<fdtab, proc, status, obj, died, failed, closes, doubleClose, closeCalled>>
netVars == <<peerSide, srvSide, backlog, s2c, c2s>>
ioVars == <<opk, pcs, var, buf, len, off, ok, sys, calls, wire, res>>
ghostVars == <<exact, log, cut, nops>>
vars == <<objVars, osVars, netVars, ioVars, ghostVars>>


(* ----------------------------- kernel --------------------------------- *)

\* The part of the state that close() and exit() act on.
Kernel ==
  [tab |-> fdtab, ss |-> srvSide, bl |-> backlog, dbl |-> doubleClose]

\* The lowest free descriptor number, which socket() and accept() hand out.
HasFreeFd(tab) == \E f \in Fds : tab[f] = "free"
LowestFree(tab) ==
  CHOOSE f \in Fds : tab[f] = "free" /\ \A g \in Fds : g < f => tab[g] # "free"

\* close(fd).  A number that is not open fails with EBADF and changes
\* nothing; closing a connected socket ends the server's side of that
\* connection, closing the listening socket resets what waits in its backlog.
OsClose(k, fd) ==
  IF fd \notin Fds THEN k
  ELSE IF k.tab[fd] = "free" THEN [k EXCEPT !.dbl = TRUE]
  ELSE [tab |-> [k.tab EXCEPT ![fd] = "free"],
        ss  |-> [p \in Peers |->
                   IF k.tab[fd] = p THEN "closed"
                   ELSE IF k.tab[fd] = "listen" /\ k.ss[p] = "backlog"
                        THEN "closed"
                   ELSE k.ss[p]],
        bl  |-> IF k.tab[fd] = "listen" THEN <<>> ELSE k.bl,
        dbl |-> k.dbl]

\* A CloseSocket that also closes every accepted descriptor from f upwards.
RECURSIVE ClosePeersFrom(_, _)
ClosePeersFrom(k, f) ==
  IF f \notin Fds THEN k
  ELSE ClosePeersFrom(IF k.tab[f] \in Peers THEN OsClose(k, f) ELSE k, f + 1)

CloseSocketAllK(k) == ClosePeersFrom(OsClose(k, server_fd_), 3)

\* Server::CloseSocket: close(server_fd_); close(client_fd_);
CloseSocketK(k) == OsClose(OsClose(k, server_fd_), client_fd_)

\* exit(): the kernel ends every connection of the process.  The table is
\* left as exit() found it, so that what the program closed itself stays
\* visible.
ExitK(k) ==
  [k EXCEPT !.ss = [p \in Peers |->
                      IF k.ss[p] \in {"backlog", "open"} THEN "closed"
                      ELSE k.ss[p]],
            !.bl = <<>>]

\* The peer the descriptor fd is connected to, or "none".
ConnOf(fd) ==
  IF fd \in Fds /\ fdtab[fd] \in Peers THEN fdtab[fd] ELSE "none"

IoPcs == {"io1", "io2"}

\* The remote end of an operation under way has just gone away.
NewCut(ps, ss) ==
  [e \in Ends |->
     \/ cut[e]
     \/ /\ pcs[e] \in IoPcs
        /\ IF e = "srv"
           THEN /\ ConnOf(client_fd_) # "none"
                /\ peerSide[ConnOf(client_fd_)] = "open"
                /\ ps[ConnOf(client_fd_)] = "closed"
           ELSE srvSide[e] # "closed" /\ ss[e] = "closed"]

SetKernel(k) ==
  /\ fdtab' = k.tab
  /\ srvSide' = k.ss
  /\ backlog' = k.bl
  /\ doubleClose' = k.dbl

\* The server's own part of the per-endpoint state.
SrvIo ==
  [opk |-> opk["srv"], pcs |-> pcs["srv"], var |-> var["srv"],
   buf |-> buf["srv"], len |-> len["srv"], off |-> off["srv"],
   ok |-> ok["srv"], sys |-> sys["srv"], calls |-> calls["srv"],
   wire |-> wire["srv"], res |-> res["srv"]]

OnlySrv(x, none) == [e \in Ends |-> IF e = "srv" THEN x ELSE none]

\* The server process ends, or its Server object does, with io as the
\* server's part: the model lets go of the remote endpoints and of what is
\* in flight.
LetGo(io) ==
  /\ opk' = OnlySrv(io.opk, "none")
  /\ pcs' = OnlySrv(io.pcs, "idle")
  /\ var' = OnlySrv(io.var, <<>>)
  /\ buf' = OnlySrv(io.buf, <<>>)
  /\ len' = OnlySrv(io.len, 0)
  /\ off' = OnlySrv(io.off, 0)
  /\ ok' = OnlySrv(io.ok, TRUE)
  /\ sys' = OnlySrv(io.sys, FALSE)
  /\ calls' = OnlySrv(io.calls, <<>>)
  /\ wire' = OnlySrv(io.wire, <<>>)
  /\ res' = OnlySrv(io.res, "none")
  /\ cut' = OnlySrv(cut["srv"], FALSE)
  /\ nops' = OnlySrv(nops["srv"], 0)
  /\ s2c' = [p \in Peers |-> <<>>]
  /\ c2s' = [p \in Peers |-> <<>>]

(* ------------------------------- Init --------------------------------- *)

EmptyLog == [stx |-> <<>>, prx |-> <<>>, ptx |-> <<>>, srx |-> <<>>]

InitCommon ==
  /\ proc = "running"
  /\ status = 0
  /\ obj = "alive"
  /\ backlog = <<>>
  /\ s2c = [p \in Peers |-> <<>>]
  /\ c2s = [p \in Peers |-> <<>>]
  /\ opk = [e \in Ends |-> "none"]
  /\ pcs = [e \in Ends |-> "idle"]
  /\ var = [e \in Ends |-> <<>>]
  /\ buf = [e \in Ends |-> <<>>]
  /\ len = [e \in Ends |-> 0]
  /\ off = [e \in Ends |-> 0]
  /\ ok = [e \in Ends |-> TRUE]
  /\ sys = [e \in Ends |-> FALSE]
  /\ calls = [e \in Ends |-> <<>>]
  /\ wire = [e \in Ends |-> <<>>]
  /\ res = [e \in Ends |-> "none"]
  /\ died = ""
  /\ failed = ""
  /\ closes = <<>>
  /\ doubleClose = FALSE
  /\ closeCalled = FALSE
  /\ log = [p \in Peers |-> EmptyLog]
  /\ cut = [e \in Ends |-> FALSE]

\* Server::Server: port_ and debug_ are set; the counter starts at 0.
Init ==
  /\ InitCommon
  /\ server_fd_ = NotOpen
  /\ client_fd_ = NotOpen
  /\ fdtab = [f \in Fds |-> "free"]
  /\ peerSide = [p \in Peers |-> "new"]
  /\ srvSide = [p \in Peers |-> "none"]
  /\ total_bytes_sent_ = ZeroCount
  /\ exact = ZeroCount
  /\ nops = [e \in Ends |-> IF e = "srv" THEN MaxOps ELSE MaxPeerOps]

\* The state that Setup, the connect of p1 and Start lead to from Init, each
\* without failure: descriptor 3 listens, descriptor 4 is the peer.
Linked ==
  /\ server_fd_ = 3
  /\ client_fd_ = 4
  /\ fdtab = [f \in Fds |-> IF f = 3 THEN "listen"
                            ELSE IF f = 4 THEN "p1" ELSE "free"]
  /\ peerSide = [p \in Peers |-> IF p = "p1" THEN "open" ELSE "new"]
  /\ srvSide = [p \in Peers |-> IF p = "p1" THEN "open" ELSE "none"]

InitLink ==
  /\ InitCommon
  /\ Linked
  /\ total_bytes_sent_ = ZeroCount
  /\ exact = ZeroCount
  /\ nops = [e \in Ends |-> IF e = "srv" THEN MaxOps ELSE MaxPeerOps]

\* The same after successful sends of 2^32 - 8 bytes in all (as many
\* SendValue calls as that takes) and no ClearTotalBytesSent.
LongCount == <<Limb - 1, Limb - SizeofSizeT>>
InitLong ==
  /\ InitCommon
  /\ Linked
  /\ total_bytes_sent_ = LongCount
  /\ exact = LongCount
  /\ nops = [e \in Ends |-> IF e = "srv" THEN MaxOps ELSE MaxPeerOps]

\* An established connection on which both ends have MaxSeq operations to
\* perform.
InitOrder ==
  /\ InitCommon
  /\ Linked
  /\ total_bytes_sent_ = ZeroCount
  /\ exact = ZeroCount
  /\ nops = [e \in Ends |-> MaxSeq]

(* ---------------------------- lifecycle ------------------------------- *)

SrvIdle == proc = "running" /\ obj = "alive" /\ pcs["srv"] = "idle"

\* exit(EXIT_FAILURE) out of a server handler.
SrvExit(k, handler, closed, io) ==
  /\ SetKernel(ExitK(k))
  /\ died' = handler
  /\ closes' = closed
  /\ closeCalled' = (closeCalled \/ closed # <<>>)
  /\ proc' = "exited"
  /\ status' = ExitFailure
  /\ LetGo([io EXCEPT !.pcs = "exited"])

\* An exception that nothing catches: std::terminate, abort().  No handler
\* of the program runs and nothing is closed before the process ends.
SrvAbort(handler, io) ==
  /\ SetKernel(ExitK(Kernel))
  /\ died' = handler
  /\ proc' = "exited"
  /\ status' = Aborted
  /\ LetGo([io EXCEPT !.pcs = "exited", !.res = "aborted"])
  /\ UNCHANGED <<failed, closes, closeCalled>>

\* A startup failure handled as the codecs handle theirs, with CloseSocket
\* before exit.
StartupFatalClosing(k, handler, call) ==
  /\ SrvExit(CloseSocketK(k), handler, <<server_fd_, client_fd_>>, SrvIo)
  /\ failed' = call

\* perror / FatalLog and exit(EXIT_FAILURE) out of Setup or Start, whose OS
\* call `call` failed; k is the kernel's state at that moment.
StartupFatal(k, handler, call) ==
  /\ SrvExit(k, handler, <<>>, SrvIo)
  /\ failed' = call

SetupSteps == {"socket", "setsockopt", "bind", "listen", "done"}

\* What the new socket is once the calls of Setup before `fails` have
\* succeeded: created, with SO_REUSEADDR set, bound, listening.
SocketBefore(fails) ==
  CASE fails = "setsockopt" -> "sock"
    [] fails = "bind" -> "reuse"
    [] fails = "listen" -> "bound"
    [] fails = "done" -> "listen"

\* Server::Setup; `fails` is the first call that fails, "done" if none does.
Setup(fails) ==
  /\ SrvIdle
  /\ fails \in SetupSteps
  /\ UNCHANGED <<client_fd_, total_bytes_sent_, obj, peerSide, exact, log>>
  /\ IF fails = "socket"
     THEN /\ server_fd_' = NotOpen
          /\ StartupFatal(Kernel, "Setup", fails)
     ELSE /\ HasFreeFd(fdtab)
          /\ LET fd == LowestFree(fdtab)
                 made == [Kernel EXCEPT !.tab[fd] = SocketBefore(fails)]
                 \* bind() finds the port taken while a socket listens on it
                 taken == \E f \in Fds : fdtab[f] = "listen"
             IN /\ server_fd_' = fd
                /\ IF fails = "done"
                   THEN /\ ~taken
                        /\ SetKernel(made)
                        /\ UNCHANGED <<proc, status, died, failed, closes>>
                        /\ UNCHANGED <<closeCalled, ioVars, s2c, c2s, cut, nops>>
                   ELSE StartupFatal(made, "Setup", fails)

\* Server::CloseSocket, called by the owner of the object.
CloseSocket ==
  /\ SrvIdle
  /\ SetKernel(CloseSocketK(Kernel))
  /\ cut' = NewCut(peerSide, srvSide')
  /\ closeCalled' = TRUE
  /\ UNCHANGED <<objVars, proc, status, obj, died, closes, peerSide, s2c, c2s>>
  /\ UNCHANGED <<failed, ioVars, exact, log, nops>>

\* Server::~Server
Destroy ==
  /\ SrvIdle
  /\ SetKernel(CloseSocketK(Kernel))
  /\ obj' = "destroyed"
  /\ LetGo(SrvIo)
  /\ UNCHANGED <<objVars, proc, status, died, failed, closes, closeCalled>>
  /\ UNCHANGED <<peerSide, exact, log>>

\* Server::Start: accept() takes the first waiting connection, blocks while
\* none waits, and fails on a descriptor that does not listen.
Start(accepted) ==
  /\ SrvIdle
  /\ accepted \in BOOLEAN
  /\ UNCHANGED <<server_fd_, total_bytes_sent_, obj, peerSide, exact, log>>
  /\ IF accepted
     THEN /\ server_fd_ \in Fds
          /\ fdtab[server_fd_] = "listen"
          /\ backlog # <<>>
          /\ HasFreeFd(fdtab)
          /\ LET fd == LowestFree(fdtab)
                 p == Head(backlog)
             IN /\ client_fd_' = fd
                /\ SetKernel([Kernel EXCEPT !.tab[fd] = p,
                                            !.ss[p] = "open",
                                            !.bl = Tail(backlog)])
          /\ UNCHANGED <<proc, status, died, failed, closes, closeCalled>>
          /\ UNCHANGED <<ioVars, s2c, c2s, cut, nops>>
     ELSE /\ client_fd_' = NotOpen
          /\ StartupFatal(Kernel, "Start", "accept")

\* Server::GetTotalBytesSent
GetTotalBytesSent == total_bytes_sent_

\* Server::ClearTotalBytesSent
ClearTotalBytesSent ==
  /\ SrvIdle
  /\ total_bytes_sent_' = ZeroCount
  /\ exact' = ZeroCount
  /\ UNCHANGED <<server_fd_, client_fd_, osVars>>
  /\ UNCHANGED <<netVars, ioVars, log, cut, nops>>

(* ------------------------------ peers --------------------------------- *)

\* The model follows the remote endpoints for as long as the server process
\* runs and its Server object lives.
SrvThere == proc = "running" /\ obj = "alive"

\* A remote process connects to the listening port.
PeerConnect(p) ==
  /\ peerSide[p] = "new"
  /\ SrvThere
  /\ \E f \in Fds : fdtab[f] = "listen"
  /\ Len(backlog) < Backlog
  /\ peerSide' = [peerSide EXCEPT ![p] = "open"]
  /\ srvSide' = [srvSide EXCEPT ![p] = "backlog"]
  /\ backlog' = Append(backlog, p)
  /\ UNCHANGED <<objVars, osVars, s2c, c2s, ioVars, ghostVars>>

\* A remote process is gone: its end of the connection is closed, what was
\* in flight to it is dropped, and so is the memory of its operation.
PeerGone(p) ==
  /\ peerSide' = [peerSide EXCEPT ![p] = "closed"]
  /\ pcs' = [pcs EXCEPT ![p] = "exited"]
  /\ cut' = [NewCut(peerSide', srvSide) EXCEPT ![p] = FALSE]
  /\ opk' = [opk EXCEPT ![p] = "none"]
  /\ var' = [var EXCEPT ![p] = <<>>]
  /\ buf' = [buf EXCEPT ![p] = <<>>]
  /\ len' = [len EXCEPT ![p] = 0]
  /\ off' = [off EXCEPT ![p] = 0]
  /\ ok' = [ok EXCEPT ![p] = TRUE]
  /\ sys' = [sys EXCEPT ![p] = FALSE]
  /\ calls' = [calls EXCEPT ![p] = <<>>]
  /\ res' = [res EXCEPT ![p] = "none"]

\* A remote process closes its connection (or dies) at any moment.
PeerClose(p) ==
  /\ peerSide[p] = "open"
  /\ SrvThere
  /\ PeerGone(p)
  /\ wire' = [wire EXCEPT ![p] = <<>>]
  /\ s2c' = [s2c EXCEPT ![p] = <<>>]
  /\ UNCHANGED <<objVars, osVars, srvSide, backlog, c2s>>
  /\ UNCHANGED <<exact, log, nops>>


\* A remote process writes bytes to its connection with a send() of its own.
PeerWrite(p, bytes) ==
  /\ peerSide[p] = "open"
  /\ srvSide[p] = "open"
  /\ pcs[p] = "idle"
  /\ nops[p] > 0
  /\ SrvThere
  /\ c2s' = [c2s EXCEPT ![p] = @ \o bytes]
  /\ nops' = [nops EXCEPT ![p] = @ - 1]
  /\ UNCHANGED <<objVars, osVars, peerSide, srvSide, backlog, s2c>>
  /\ UNCHANGED <<ioVars, exact, log, cut>>

(* ------------------------------ codecs -------------------------------- *)

SendKinds == {"SendValue", "SendVector", "SendArray2", "SendArray4"}
RecvKinds == {"RecvValue", "RecvVector", "RecvArray2", "RecvArray4"}
VectorKinds == {"SendVector", "RecvVector"}
\* Every receive, RecvVector too, writing straight into the caller's object.
InPlaceKindsAll == {"RecvValue", "RecvVector", "RecvArray2", "RecvArray4"}

\* Receives that write straight into the caller's object.
InPlaceKinds == {"RecvValue", "RecvArray2", "RecvArray4"}

Shape(k) ==
  CASE k \in {"SendValue", "RecvValue"} -> "Value"
    [] k \in VectorKinds -> "Vector"
    [] k \in {"SendArray2", "RecvArray2"} -> "Array2"
    [] k \in {"SendArray4", "RecvArray4"} -> "Array4"
    [] OTHER -> "none"

\* An endpoint whose caller may start a codec operation.  The server's
\* caller may do so in any state of the object; a remote endpoint starts its
\* operations on an accepted connection that the server still holds, and is
\* then exposed to whatever the server does.
CanCall(e) ==
  /\ pcs[e] = "idle"
  /\ nops[e] > 0
  /\ IF e = "srv" THEN proc = "running" /\ obj = "alive"
     ELSE peerSide[e] = "open" /\ srvSide[e] = "open"

\* The operation's first SendData / RecvData call: buffer b, length l.
Begin(e, k, v, b, l) ==
  /\ CanCall(e)
  /\ opk' = [opk EXCEPT ![e] = k]
  /\ pcs' = [pcs EXCEPT ![e] = "io1"]
  /\ var' = [var EXCEPT ![e] = v]
  /\ buf' = [buf EXCEPT ![e] = b]
  /\ len' = [len EXCEPT ![e] = l]
  /\ off' = [off EXCEPT ![e] = 0]
  /\ ok' = [ok EXCEPT ![e] = TRUE]
  /\ sys' = [sys EXCEPT ![e] = FALSE]
  /\ calls' = [calls EXCEPT ![e] = <<>>]
  /\ wire' = [wire EXCEPT ![e] = <<>>]
  /\ res' = [res EXCEPT ![e] = "none"]
  /\ cut' = [cut EXCEPT ![e] = FALSE]
  /\ nops' = [nops EXCEPT ![e] = @ - 1]
  /\ UNCHANGED <<objVars, osVars>>
  /\ UNCHANGED <<netVars, exact, log>>

\* Server::SendValue(uint32_t value)
SendValue(e, value) ==
  Begin(e, "SendValue", <<value>>, ToBytes(value, SizeofU32), SizeofU32)

\* Server::RecvValue(uint32_t &value); value holds `before` at the call.
RecvValue(e, before) ==
  Begin(e, "RecvValue", <<before>>, ToBytes(before, SizeofU32), SizeofU32)

\* A SendVector whose prefix is the element count.
SendVectorCount(e, vector) ==
  Begin(e, "SendVector", vector, ToBytes(Len(vector), SizeofSizeT), SizeofSizeT)

\* Server::SendVector: vector_size = vector.size() * sizeof(uint32_t) goes
\* first, as the sizeof(vector_size) bytes of that variable.
SendVector(e, vector) ==
  Begin(e, "SendVector", vector,
        ToBytes(Len(vector) * SizeofU32, SizeofSizeT), SizeofSizeT)

\* Server::RecvVector: the size is received into vector_size, which starts as
\* vector.size() * sizeof(uint32_t).
RecvVector(e, vector) ==
  Begin(e, "RecvVector", vector,
        ToBytes(Len(vector) * SizeofU32, SizeofSizeT), SizeofSizeT)

\* Server::SendArray(std::array<uint32_t, 2> &array)
SendArray2(e, array) ==
  Begin(e, "SendArray2", array, DataBytes(array), 2 * SizeofU32)

\* The overload for 2 elements that asks for the bytes of 4.
RecvArray2Long(e, array) ==
  Begin(e, "RecvArray2", array, DataBytes(array), 4 * SizeofU32)

\* Server::RecvArray(std::array<uint32_t, 2> &array)
RecvArray2(e, array) ==
  Begin(e, "RecvArray2", array, DataBytes(array), 2 * SizeofU32)

\* The overload for 4 elements with the length of the one for 2.
SendArray4Short(e, array) ==
  Begin(e, "SendArray4", array, DataBytes(array), 2 * SizeofU32)

\* Server::SendArray(std::array<uint32_t, 4> &array)
SendArray4(e, array) ==
  Begin(e, "SendArray4", array, DataBytes(array), 4 * SizeofU32)

\* Server::RecvArray(std::array<uint32_t, 4> &array)
RecvArray4(e, array) ==
  Begin(e, "RecvArray4", array, DataBytes(array), 4 * SizeofU32)


(* ------------------- after a transfer has returned -------------------- *)

\* A counter that leaves out the size prefix of a vector.
BytesCountedPayload(k, v) ==
  CASE k = "SendValue" -> SizeofU32
    [] k = "SendVector" -> Len(v) * SizeofU32
    [] k = "SendArray2" -> 2 * SizeofU32
    [] k = "SendArray4" -> 4 * SizeofU32
    [] OTHER -> 0

\* A counter that takes in the bytes of the receives as well.
BytesCountedBothWays(k, v) ==
  CASE k \in {"SendValue", "RecvValue"} -> SizeofU32
    [] k \in VectorKinds -> SizeofSizeT + Len(v) * SizeofU32
    [] k \in {"SendArray2", "RecvArray2"} -> 2 * SizeofU32
    [] k \in {"SendArray4", "RecvArray4"} -> 4 * SizeofU32
    [] OTHER -> 0

\* What a successful send adds to total_bytes_sent_.
BytesCounted(k, v) ==
  CASE k = "SendValue" -> SizeofU32
    [] k = "SendVector" -> SizeofSizeT + Len(v) * SizeofU32
    [] k = "SendArray2" -> 2 * SizeofU32
    [] k = "SendArray4" -> 4 * SizeofU32
    [] OTHER -> 0

\* SendData / RecvData with length 0: true at once, no OS call.
ReturnsAtOnce(l) == l = 0

\* The record kept of a transfer that returned.
Call(l, moved, ret, called) ==
  [len |-> l, moved |-> moved, ret |-> ret, sys |-> called]

\* The ghost log of the connection gets the value sent or received.
Logged(e, v) ==
  LET c == IF e = "srv" THEN ConnOf(client_fd_) ELSE e
      field == IF e = "srv"
               THEN (IF opk[e] \in SendKinds THEN "stx" ELSE "srx")
               ELSE (IF opk[e] \in SendKinds THEN "ptx" ELSE "prx")
      entry == [k |-> Shape(opk[e]), v |-> v]
  IN IF c = "none" THEN log
     ELSE [log EXCEPT ![c][field] = Append(@, entry)]

\* What the operation leaves behind once its last transfer returned: t is
\* that transfer's last OS call (the buffer b, the bytes moved, the bytes
\* the OS has taken (w) and the two directions of the network).  A receive
\* into the caller's object has written it; RecvVector moves r_vector into
\* the caller's vector on success only.
Outcome(e, good, l, cs, t) ==
  [opk |-> opk[e], pcs |-> "idle",
   var |-> IF opk[e] \in InPlaceKinds \/ (opk[e] = "RecvVector" /\ good)
           THEN WordsOf(SubSeq(t.b, 1, SizeofU32 * (Len(t.b) \div SizeofU32)))
           ELSE var[e],
   buf |-> t.b, len |-> l, off |-> t.moved, ok |-> good,
   sys |-> cs[Len(cs)].sys, calls |-> cs,
   wire |-> IF good THEN t.w ELSE <<>>,
   res |-> IF good THEN "ok" ELSE "fatal"]

\* The operation returns to its caller; a send has added its bytes to
\* total_bytes_sent_.
Succeed(e, io, t) ==
  LET n == BytesCounted(opk[e], var[e])
  IN /\ opk' = [opk EXCEPT ![e] = io.opk]
     /\ pcs' = [pcs EXCEPT ![e] = io.pcs]
     /\ var' = [var EXCEPT ![e] = io.var]
     /\ buf' = [buf EXCEPT ![e] = io.buf]
     /\ len' = [len EXCEPT ![e] = io.len]
     /\ off' = [off EXCEPT ![e] = io.off]
     /\ ok' = [ok EXCEPT ![e] = io.ok]
     /\ sys' = [sys EXCEPT ![e] = io.sys]
     /\ calls' = [calls EXCEPT ![e] = io.calls]
     /\ wire' = [wire EXCEPT ![e] = io.wire]
     /\ res' = [res EXCEPT ![e] = io.res]
     /\ s2c' = t.s2c
     /\ c2s' = t.c2s
     /\ total_bytes_sent_' =
          IF e = "srv" THEN AddU32(total_bytes_sent_, n)
          ELSE total_bytes_sent_
     /\ exact' = IF e = "srv" THEN AddExact(exact, n) ELSE exact
     /\ log' = Logged(e, io.var)
     /\ UNCHANGED <<server_fd_, client_fd_>>
     /\ UNCHANGED <<osVars, peerSide, srvSide, backlog, cut, nops>>

\* FatalLog, CloseSocket, exit(EXIT_FAILURE).
Fail(e, io, t) ==
  /\ UNCHANGED <<objVars, exact, log>>
  /\ IF e = "srv"
     THEN /\ SrvExit(CloseSocketK(Kernel), opk[e],
                     <<server_fd_, client_fd_>>, io)
          /\ UNCHANGED <<peerSide, obj, failed>>
     ELSE \* the remote process does the same and is gone
          /\ PeerGone(e)
          /\ wire' = [wire EXCEPT ![e] = <<>>]
          /\ s2c' = [t.s2c EXCEPT ![e] = <<>>]
          /\ c2s' = t.c2s
          /\ UNCHANGED <<osVars, srvSide, backlog, nops>>

\* std::bad_alloc out of r_vector's constructor.
Throw(e, io, t) ==
  /\ UNCHANGED <<objVars, exact, log>>
  /\ IF e = "srv"
     THEN /\ SrvAbort(opk[e], io)
          /\ UNCHANGED <<peerSide, obj>>
     ELSE /\ PeerGone(e)
          /\ wire' = [wire EXCEPT ![e] = <<>>]
          /\ s2c' = [t.s2c EXCEPT ![e] = <<>>]
          /\ c2s' = t.c2s
          /\ UNCHANGED <<osVars, srvSide, backlog, nops>>

\* A codec that takes every transfer for a success.
FinishUnchecked(e, good, l, cs, t) ==
  Succeed(e, Outcome(e, TRUE, l, cs, t), t)

\* The `if (!is_sent)` / `if (!is_received)` check and what follows it.
Finish(e, good, l, cs, t) ==
  IF good THEN Succeed(e, Outcome(e, good, l, cs, t), t)
  ELSE Fail(e, Outcome(e, good, l, cs, t), t)

\* is_sent = ..., is_received = ...: the second result alone.
BothLast(first, second) == second

\* is_sent &= SendData(...), is_received &= RecvData(...)
Both(first, second) == first /\ second

\* A receiver that sizes r_vector by the vector it was handed.
PayloadSizeOwn(e, b) == Len(var[e]) * SizeofU32

\* vector_size as the second transfer uses it: what SendVector computed, what
\* RecvVector's first transfer left in the variable.
PayloadSize(e, b) ==
  IF opk[e] = "SendVector" THEN Len(var[e]) * SizeofU32 ELSE FromSize(b)

\* SendVector / RecvVector go on to their second transfer whatever the
\* first returned: is_sent &= SendData(...), is_received &= RecvData(...).
Second(e, r, b2, vs, cs, t) ==
  /\ pcs' = [pcs EXCEPT ![e] = "io2"]
  /\ buf' = [buf EXCEPT ![e] = b2]
  /\ len' = [len EXCEPT ![e] = vs]
  /\ off' = [off EXCEPT ![e] = 0]
  /\ ok' = [ok EXCEPT ![e] = r]
  /\ sys' = [sys EXCEPT ![e] = FALSE]
  /\ calls' = [calls EXCEPT ![e] = cs]
  /\ wire' = [wire EXCEPT ![e] = IF r THEN t.w ELSE <<>>]
  /\ s2c' = t.s2c
  /\ c2s' = t.c2s
  /\ UNCHANGED <<objVars, osVars, peerSide, srvSide, backlog>>
  /\ UNCHANGED <<opk, var, res, ghostVars>>

\* r_vector(vector_size / sizeof(uint32_t)) gets its memory, or, when that
\* is HugeSize bytes or more, may not.
AllocOutcomes(e, vs) ==
  IF opk[e] = "RecvVector" /\ vs >= HugeSize THEN {"ok", "bad_alloc"}
  ELSE {"ok"}

\* The transfer under way returned r.
Return(e, r, t) ==
  LET cs == <<Call(len[e], t.moved, r, TRUE)>>
  IN IF opk[e] \in VectorKinds /\ pcs[e] = "io1"
     THEN LET vs == PayloadSize(e, t.b)
              \* of r_vector's bytes the buffer keeps the ones received so far
              b2 == IF opk[e] = "SendVector" THEN DataBytes(var[e]) ELSE <<>>
          IN \E a \in AllocOutcomes(e, vs) :
               IF a = "bad_alloc"
               THEN Throw(e, [Outcome(e, FALSE, len[e], cs, t)
                               EXCEPT !.ok = r], t)
               ELSE IF ReturnsAtOnce(vs)
               THEN Finish(e, Both(r, TRUE), vs,
                           Append(cs, Call(vs, 0, TRUE, FALSE)),
                           [t EXCEPT !.b = b2, !.moved = 0])
               ELSE Second(e, r, b2, vs, cs, t)
     ELSE Finish(e, IF pcs[e] = "io2" THEN Both(ok[e], r) ELSE r,
                 len[e], cs, t)

\* The transfer under way goes on: it calls the OS again.
Advance(e, t) ==
  /\ buf' = [buf EXCEPT ![e] = t.b]
  /\ off' = [off EXCEPT ![e] = t.moved]
  /\ sys' = [sys EXCEPT ![e] = TRUE]
  /\ var' = [var EXCEPT ![e] = IF opk[e] \in InPlaceKinds
                               THEN WordsOf(t.b) ELSE @]
  /\ wire' = [wire EXCEPT ![e] = IF ok[e] THEN t.w ELSE <<>>]
  /\ calls' = [calls EXCEPT ![e] = <<>>]
  /\ s2c' = t.s2c
  /\ c2s' = t.c2s
  /\ UNCHANGED <<objVars, osVars, peerSide, srvSide, backlog>>
  /\ UNCHANGED <<opk, pcs, len, ok, res, ghostVars>>

(* --------------------- SendData / RecvData ---------------------------- *)

\* The connection an endpoint's transfers go over: client_fd_ for srv.
Conn(e) == IF e = "srv" THEN ConnOf(client_fd_) ELSE e

RemoteOpen(e, c) ==
  IF e = "srv" THEN peerSide[c] = "open" ELSE srvSide[c] \in {"backlog", "open"}
RemoteClosed(e, c) ==
  IF e = "srv" THEN peerSide[c] = "closed" ELSE srvSide[c] = "closed"

Max(a, b) == IF a > b THEN a ELSE b
Min(a, b) == IF a < b THEN a ELSE b

\* The bytes allocated where a receive writes: r_vector holds whole
\* elements only.
Capacity(e) ==
  IF opk[e] = "RecvVector" /\ pcs[e] = "io2"
  THEN SizeofU32 * (len[e] \div SizeofU32)
  ELSE len[e]

\* The most one OS call can move for the transfer under way.
Room(e) ==
  IF opk[e] \in SendKinds THEN len[e] - off[e]
  ELSE IF Conn(e) = "none" THEN 0
  ELSE Min(len[e] - off[e],
           Len(IF e = "srv" THEN c2s[Conn(e)] ELSE s2c[Conn(e)]))

\* What one OS call of the transfer under way can return.
Counts(e) ==
  {-1, 0} \cup {n \in 1..Room(e) : n = Room(e) \/ n % Chunk = 0}

\* b with `bytes` written at offset `at`.
Store(b, at, bytes) ==
  [i \in 1..Max(Len(b), at + Len(bytes)) |->
     IF i > at /\ i <= at + Len(bytes) THEN bytes[i - at] ELSE b[i]]

\* The caller of a transfer under way is still there to run it.
Running(e) ==
  /\ pcs[e] \in IoPcs
  /\ SrvThere

\* What follows an OS call that returned n for a transfer that t describes.
AfterCall(e, n, t) ==
  IF n < 1 THEN Return(e, FALSE, t)
  ELSE IF t.moved = len[e] THEN Return(e, TRUE, t)
  ELSE Advance(e, t)

\* One pass of SendData's loop: send() of the unsent rest takes n bytes, or
\* fails (n = -1).  The call returns false on the failure and true once the
\* whole length is out.
SendDataStep(e, n) ==
  /\ Running(e)
  /\ opk[e] \in SendKinds
  /\ n = -1 \/ (n >= 1 /\ n <= len[e] - off[e] /\ Conn(e) # "none")
  /\ LET c == Conn(e)
         bytes == IF n = -1 THEN <<>>
                  ELSE SubSeq(buf[e], off[e] + 1, off[e] + n)
         arrives == n >= 1 /\ RemoteOpen(e, c)
     IN AfterCall(e, n,
          [b |-> buf[e],
           moved |-> off[e] + Len(bytes),
           w |-> wire[e] \o bytes,
           s2c |-> IF e = "srv" /\ arrives
                   THEN [s2c EXCEPT ![c] = @ \o bytes] ELSE s2c,
           c2s |-> IF e # "srv" /\ arrives
                   THEN [c2s EXCEPT ![c] = @ \o bytes] ELSE c2s])

\* recv() has written `moved` bytes in all where Capacity(e) bytes are
\* allocated.  A write past the end is undefined: it goes unnoticed, or the
\* heap it damaged ends the process.
WriteOutcomes(e, moved) ==
  IF moved > Capacity(e) THEN {"unnoticed", "crash"} ELSE {"unnoticed"}

\* The process ends on the damaged heap (abort() out of the allocator).
Crash(e, t) ==
  Throw(e, [Outcome(e, FALSE, len[e], <<Call(len[e], t.moved, FALSE, TRUE)>>, t)
              EXCEPT !.ok = ok[e], !.calls = <<>>], t)

\* One pass of RecvData's loop: recv() into the unread rest yields n bytes,
\* 0 at the end of a closed connection, or fails (n = -1); it blocks while
\* nothing has arrived on an open connection.
RecvDataStep(e, n) ==
  /\ Running(e)
  /\ opk[e] \in RecvKinds
  /\ LET c == Conn(e)
         avail == IF c = "none" THEN <<>>
                  ELSE IF e = "srv" THEN c2s[c] ELSE s2c[c]
         bytes == IF n >= 1 THEN SubSeq(avail, 1, n) ELSE <<>>
         rest == IF n >= 1 THEN SubSeq(avail, n + 1, Len(avail)) ELSE avail
     IN /\ \/ n = -1
           \/ n = 0 /\ c # "none" /\ avail = <<>> /\ RemoteClosed(e, c)
           \/ n >= 1 /\ n <= len[e] - off[e] /\ n <= Len(avail)
        /\ LET t == [b |-> Store(buf[e], off[e], bytes),
                      moved |-> off[e] + Len(bytes),
                      w |-> wire[e],
                      s2c |-> IF e # "srv" /\ n >= 1
                              THEN [s2c EXCEPT ![c] = rest] ELSE s2c,
                      c2s |-> IF e = "srv" /\ n >= 1
                              THEN [c2s EXCEPT ![c] = rest] ELSE c2s]
           IN \E o \in WriteOutcomes(e, t.moved) :
                IF o = "crash" THEN Crash(e, t) ELSE AfterCall(e, n, t)

(* ------------------------------- Next --------------------------------- *)

Next ==
  \/ \E fails \in SetupSteps : Setup(fails)
  \/ \E accepted \in BOOLEAN : Start(accepted)
  \/ CloseSocket
  \/ Destroy
  \/ ClearTotalBytesSent
  \/ \E p \in FirstPeers : PeerConnect(p)
  \/ \E p \in Peers : PeerClose(p)
  \/ \E e \in Ends, v \in Values : SendValue(e, v)
  \/ \E e \in Ends : RecvValue(e, StaleValue)
  \/ \E e \in Ends, v \in Vectors : SendVector(e, v)
  \/ \E e \in Ends, v \in StaleVectors : RecvVector(e, v)
  \/ \E e \in Ends, a \in Arrays2 : SendArray2(e, a)
  \/ \E e \in Ends, a \in Stale(2) : RecvArray2(e, a)
  \/ \E e \in Ends, a \in Arrays4 : SendArray4(e, a)
  \/ \E e \in Ends, a \in Stale(4) : RecvArray4(e, a)
  \/ \E e \in Ends : \E n \in Counts(e) : SendDataStep(e, n)
  \/ \E e \in Ends : \E n \in Counts(e) : RecvDataStep(e, n)

Spec == Init /\ [][Next]_vars

\* The codec operations on an established connection.
NextLink ==
  \/ ClearTotalBytesSent
  \/ \E p \in Peers : PeerClose(p)
  \/ \E e \in Ends, v \in Values : SendValue(e, v)
  \/ \E e \in Ends : RecvValue(e, StaleValue)
  \/ \E e \in Ends, v \in Vectors : SendVector(e, v)
  \/ \E e \in Ends, v \in StaleVectors : RecvVector(e, v)
  \/ \E e \in Ends, a \in Arrays2 : SendArray2(e, a)
  \/ \E e \in Ends, a \in Stale(2) : RecvArray2(e, a)
  \/ \E e \in Ends, a \in Arrays4 : SendArray4(e, a)
  \/ \E e \in Ends, a \in Stale(4) : RecvArray4(e, a)
  \/ \E e \in Ends : \E n \in Counts(e) : SendDataStep(e, n)
  \/ \E e \in Ends : \E n \in Counts(e) : RecvDataStep(e, n)

SpecLink == InitLink /\ [][NextLink]_vars

\* The same with a long history of sends behind it.
SpecLong == InitLong /\ [][NextLink]_vars

\* An established connection with the port still listening: further
\* clients connect, and the owner calls Start again, CloseSocket, ~Server.
NextTwo ==
  \/ \E accepted \in BOOLEAN : Start(accepted)
  \/ CloseSocket
  \/ Destroy
  \/ \E p \in Peers : PeerConnect(p)
  \/ \E p \in Peers : PeerClose(p)
  \/ \E e \in Ends, v \in Values : SendValue(e, v)
  \/ \E e \in Ends : RecvValue(e, StaleValue)
  \/ \E e \in Ends : \E n \in Counts(e) : SendDataStep(e, n)
  \/ \E e \in Ends : \E n \in Counts(e) : RecvDataStep(e, n)

SpecTwo == InitLink /\ [][NextTwo]_vars

\* RecvVector on an established connection whose remote end is a process
\* of any make: it writes a declared size and bytes, once or more.
NextRaw ==
  \/ \E p \in Peers, bytes \in RawMessages : PeerWrite(p, bytes)
  \/ \E p \in Peers : PeerClose(p)
  \/ \E v \in StaleVectors : RecvVector("srv", v)
  \/ \E n \in Counts("srv") : RecvDataStep("srv", n)

SpecRaw == InitLink /\ [][NextRaw]_vars

\* The values that the sequences of operations are made of.
OrderVectors == {<<>>, <<1090650884>>, <<1, 1090650884>>}
OrderArrays2 == {<<1090650884, 1>>}
OrderArrays4 == {<<1090650884, 1, 1090650884, 1>>}

\* The connection is used one way: e may start an operation of `kinds` when
\* it has started none of the other direction and the other ends none of
\* this one.
OneWay(e, kinds) ==
  /\ opk[e] \in kinds \cup {"none"}
  /\ \A x \in Ends \ {e} : opk[x] \notin kinds

\* Sequences of codec operations on an established connection: one end
\* sends value after value, the other receives them.
NextOrder ==
  \/ \E p \in Peers : PeerClose(p)
  \/ \E e \in Ends, v \in Values : OneWay(e, SendKinds) /\ SendValue(e, v)
  \/ \E e \in Ends : OneWay(e, RecvKinds) /\ RecvValue(e, StaleValue)
  \/ \E e \in Ends, v \in OrderVectors :
       OneWay(e, SendKinds) /\ SendVector(e, v)
  \/ \E e \in Ends, v \in StaleVectors :
       OneWay(e, RecvKinds) /\ RecvVector(e, v)
  \/ \E e \in Ends, a \in OrderArrays2 :
       OneWay(e, SendKinds) /\ SendArray2(e, a)
  \/ \E e \in Ends, a \in Stale(2) : OneWay(e, RecvKinds) /\ RecvArray2(e, a)
  \/ \E e \in Ends, a \in OrderArrays4 :
       OneWay(e, SendKinds) /\ SendArray4(e, a)
  \/ \E e \in Ends, a \in Stale(4) : OneWay(e, RecvKinds) /\ RecvArray4(e, a)
  \/ \E e \in Ends : \E n \in Counts(e) : SendDataStep(e, n)
  \/ \E e \in Ends : \E n \in Counts(e) : RecvDataStep(e, n)

SpecOrder == InitOrder /\ [][NextOrder]_vars

\* A blocking send() or recv() of the server returns once the kernel can
\* complete it: with bytes, with the end of a closed connection, or with
\* EBADF on a descriptor that is not a connection.  Errors on a working
\* connection may come but are not bound to.
Prompt(e) ==
  \E n \in Counts(e) :
    /\ n >= 0 \/ Conn(e) = "none"
    /\ SendDataStep(e, n) \/ RecvDataStep(e, n)

SpecLive == InitLink /\ [][NextLink]_vars /\ WF_vars(Prompt("srv"))

(* ------------------------------ claims -------------------------------- *)

\* C1: every SendData / RecvData call returns true exactly when it moved the
\* whole length asked of it, and false when it ended short of it (after an
\* error or the end of a closed connection); the scalar codecs return to
\* their caller only after a transfer that moved all sizeof(uint32_t) bytes.
C1_TrueIffAllMoved ==
  \A e \in Ends :
    /\ \A i \in 1..Len(calls[e]) :
         /\ calls[e][i].ret <=> (calls[e][i].moved = calls[e][i].len)
         /\ calls[e][i].moved <= calls[e][i].len
    /\ (opk[e] \in {"SendValue", "RecvValue"} /\ res[e] = "ok") =>
         /\ calls[e] = <<Call(SizeofU32, SizeofU32, TRUE, TRUE)>>
         /\ off[e] = SizeofU32

\* A transfer that moved part of its length in one OS call and then ended
\* on an error or a closed connection.
C1_ShortTransfer ==
  \E e \in Ends :
    /\ calls[e] # <<>>
    /\ ~calls[e][1].ret
    /\ calls[e][1].moved > 0
    /\ calls[e][1].moved < calls[e][1].len

\* The i-th send and the i-th receive of a connection belong together: the
\* kinds of the operations agree up to there.
Matched(tx, rx, i) ==
  /\ i <= Len(tx)
  /\ i <= Len(rx)
  /\ \A j \in 1..i : tx[j].k = rx[j].k

\* Every value of the given shapes that was received is the value sent.
RoundTrip(tx, rx, shapes) ==
  \A i \in 1..Len(rx) :
    (Matched(tx, rx, i) /\ rx[i].k \in shapes) => rx[i].v = tx[i].v

\* C2: a vector sent by SendVector and received by the peer's RecvVector,
\* both succeeding, arrives as the same values in the same order, whatever
\* the receiver's vector held before.
C2_VectorRoundTrip ==
  \A p \in Peers :
    /\ RoundTrip(log[p].stx, log[p].prx, {"Vector"})
    /\ RoundTrip(log[p].ptx, log[p].srx, {"Vector"})

\* The server has received a vector of two different values from the peer.
C2_VectorArrived ==
  \E p \in Peers :
    /\ log[p].ptx = <<[k |-> "Vector", v |-> <<1, 1090650884>>]>>
    /\ log[p].srx = log[p].ptx
    /\ var["srv"] = <<1, 1090650884>>
    /\ res["srv"] = "ok"

\* C3: GetTotalBytesSent is the exact sum of the wire bytes of the successful
\* sends since creation or the last ClearTotalBytesSent (4 per SendValue,
\* 8 + 4N per SendVector, 8 and 16 per SendArray), and 0 right after a
\* ClearTotalBytesSent.
C3_ExactSum == GetTotalBytesSent = exact

\* Some transfer of the server's operation has returned false.
SrvTransferFailed ==
  \/ ~ok["srv"]
  \/ \E i \in 1..Len(calls["srv"]) : ~calls["srv"][i].ret

\* C4: when a transfer of a codec operation of the server has reported
\* failure, the operation does not return to its caller and nothing is
\* tried again; the process ends, and it ends by exit(EXIT_FAILURE) out of
\* that operation after close() on server_fd_ and on client_fd_, which
\* leaves both closed.
C4_FatalTeardown ==
  /\ SrvTransferFailed =>
       /\ res["srv"] # "ok"
       /\ pcs["srv"] \in {"io2", "exited"}
       /\ pcs["srv"] = "io2" => opk["srv"] \in VectorKinds
  /\ (SrvTransferFailed /\ pcs["srv"] = "exited") =>
       /\ res["srv"] = "fatal"
       /\ proc = "exited"
       /\ status = ExitFailure
       /\ died = opk["srv"]
       /\ closes = <<server_fd_, client_fd_>>
       /\ \A fd \in {server_fd_, client_fd_} \cap Fds : fdtab[fd] = "free"
  /\ res["srv"] = "fatal" => SrvTransferFailed /\ pcs["srv"] = "exited"

\* C5: the object releases each descriptor it owns exactly once: close() is
\* never issued on a descriptor number that is already closed, whatever the
\* sequence of Setup, Start, CloseSocket, failing operations and destruction.
C5_ClosedOnce == ~doubleClose

\* The bytes an endpoint's receive can still get from the network.
Arrived(e) ==
  IF Conn(e) = "none" THEN <<>>
  ELSE IF e = "srv" THEN c2s[Conn(e)] ELSE s2c[Conn(e)]

\* A receive of the server that lacks bytes the closed peer never sent.
SrvStarved ==
  /\ cut["srv"]
  /\ pcs["srv"] \in IoPcs
  /\ opk["srv"] \in RecvKinds
  /\ Len(Arrived("srv")) < len["srv"] - off["srv"]

\* An operation that has returned to its caller made only whole transfers.
NothingTruncated ==
  \A e \in Ends :
    res[e] = "ok" =>
      /\ ok[e]
      /\ off[e] = len[e]
      /\ \A i \in 1..Len(calls[e]) :
           calls[e][i].ret /\ calls[e][i].moved = calls[e][i].len
      /\ opk[e] = "RecvVector" => Len(var[e]) = len[e] \div SizeofU32

\* C6 as stated: an operation of the server during which the peer closed its
\* connection reports failure; it has not returned to its caller as a success.
C6_CloseMeansFailure ==
  (cut["srv"] /\ pcs["srv"] \notin IoPcs) => res["srv"] # "ok"

\* C6 as the code has it: once the peer has closed its connection during an
\* operation of the server, the operation ends; a receive that lacks bytes
\* the peer has not sent ends the process instead of returning, and no
\* operation ever returns after a transfer that moved less than its length.
C6_CloseEndsOperation ==
  /\ cut["srv"] ~> (pcs["srv"] \notin IoPcs)
  /\ SrvStarved ~> (proc = "exited" /\ res["srv"] \in {"fatal", "aborted"})
  /\ []NothingTruncated

\* The peer closed while RecvVector had part of the payload, and the
\* operation failed.
C6_ClosedInPayload ==
  /\ cut["srv"]
  /\ opk["srv"] = "RecvVector"
  /\ res["srv"] = "fatal"
  /\ Len(calls["srv"]) = 1
  /\ calls["srv"][1].moved > 0
  /\ calls["srv"][1].len = MaxLen * SizeofU32

\* C7: what a successful SendVector of N values puts on the wire is 8 bytes
\* holding the byte count 4N, then the 4N bytes of the N values in order,
\* and nothing else.
C7_VectorWireForm ==
  \A e \in Ends :
    (opk[e] = "SendVector" /\ res[e] = "ok") =>
      /\ Len(wire[e]) = SizeofSizeT + SizeofU32 * Len(var[e])
      /\ FromSize(SubSeq(wire[e], 1, SizeofSizeT)) = SizeofU32 * Len(var[e])
      /\ WordsOf(SubSeq(wire[e], SizeofSizeT + 1, Len(wire[e]))) = var[e]
      /\ var[e] = <<1, 1090650884>> =>
           wire[e] = <<8, 0, 0, 0, 0, 0, 0, 0, 1, 0, 0, 0, 4, 3, 2, 65>>

\* The server has sent the vector <<1, 1090650884>>.
C7_VectorSent ==
  /\ opk["srv"] = "SendVector"
  /\ res["srv"] = "ok"
  /\ var["srv"] = <<1, 1090650884>>
  /\ Len(wire["srv"]) = 16

\* C8: an array of 2 or of 4 values sent by SendArray and received by the
\* peer's RecvArray of the same arity arrives as the same values in the same
\* order, and what goes on the wire is the 8 or 16 bytes of the values only.
C8_ArrayRoundTrip ==
  /\ \A p \in Peers :
       /\ RoundTrip(log[p].stx, log[p].prx, {"Array2", "Array4"})
       /\ RoundTrip(log[p].ptx, log[p].srx, {"Array2", "Array4"})
  /\ \A e \in Ends :
       /\ (opk[e] = "SendArray2" /\ res[e] = "ok") =>
            Len(wire[e]) = 2 * SizeofU32 /\ WordsOf(wire[e]) = var[e]
       /\ (opk[e] = "SendArray4" /\ res[e] = "ok") =>
            Len(wire[e]) = 4 * SizeofU32 /\ WordsOf(wire[e]) = var[e]

\* The peer has received the 4 values the server sent.
C8_ArrayArrived ==
  \E p \in Peers :
    /\ log[p].stx = <<[k |-> "Array4", v |-> <<1, 1090650884, 1, 1090650884>>]>>
    /\ log[p].prx = log[p].stx
    /\ Len(wire["srv"]) = 16

\* C9: once CloseSocket has run on the object, no descriptor of the process
\* is a listening or a connected socket again (so that no transfer can be
\* made either).
C9_ClosedIsTerminal ==
  closeCalled => \A f \in Fds : fdtab[f] \notin {"listen"} \cup Peers

\* The two transfers of a SendVector of no values, as they return.
EmptyVectorCalls ==
  <<Call(SizeofSizeT, SizeofSizeT, TRUE, TRUE), Call(0, 0, TRUE, FALSE)>>

\* Every transfer of length 0 returned true without an OS call; a SendVector
\* of no values that has returned put the 8 bytes of a 0 on the wire; the
\* matching RecvVector has produced a vector of no values.
ZeroLengthState ==
  /\ \A e \in Ends :
       /\ \A i \in 1..Len(calls[e]) :
            calls[e][i].len = 0 => calls[e][i].ret /\ ~calls[e][i].sys
       /\ (opk[e] = "SendVector" /\ var[e] = <<>> /\ res[e] = "ok") =>
            /\ wire[e] = <<0, 0, 0, 0, 0, 0, 0, 0>>
            /\ calls[e] = EmptyVectorCalls
  /\ \A p \in Peers :
       /\ \A i \in 1..Len(log[p].prx) :
            (Matched(log[p].stx, log[p].prx, i) /\ log[p].stx[i].v = <<>>)
              => log[p].prx[i] = [k |-> "Vector", v |-> <<>>]
       /\ \A i \in 1..Len(log[p].srx) :
            (Matched(log[p].ptx, log[p].srx, i) /\ log[p].ptx[i].v = <<>>)
              => log[p].srx[i] = [k |-> "Vector", v |-> <<>>]

\* A step in which the size prefix of a SendVector of no values goes out
\* whole ends the operation with success and adds sizeof(std::size_t) to
\* the counter.
ZeroLengthStep ==
  (/\ pcs["srv"] = "io1"
   /\ opk["srv"] = "SendVector"
   /\ var["srv"] = <<>>
   /\ calls'["srv"] # <<>>
   /\ calls'["srv"][1].ret)
  => /\ res'["srv"] = "ok"
     /\ pcs'["srv"] = "idle"
     /\ total_bytes_sent_' = AddU32(total_bytes_sent_, SizeofSizeT)
     /\ AddU32(total_bytes_sent_, SizeofSizeT) # total_bytes_sent_

\* C10: a transfer of length 0 returns true at once, without an OS call; so
\* a SendVector of an empty vector succeeds with the 8-byte prefix (value 0)
\* alone and adds 8 to the counter, and the matching RecvVector yields an
\* empty vector.
C10_ZeroLength == []ZeroLengthState /\ [][ZeroLengthStep]_vars

\* The server has received the empty vector that the peer sent.
C10_EmptyArrived ==
  \E p \in Peers :
    /\ log[p].ptx = <<[k |-> "Vector", v |-> <<>>]>>
    /\ log[p].srx = log[p].ptx
    /\ calls["srv"] = EmptyVectorCalls
    /\ var["srv"] = <<>>

\* a <= b for two counts in limbs.
LeqCount(a, b) == a[1] < b[1] \/ (a[1] = b[1] /\ a[2] <= b[2])

\* A step in which a send operation of the server returns to its caller.
SrvSendReturns ==
  /\ pcs["srv"] \in IoPcs
  /\ opk["srv"] \in SendKinds
  /\ res'["srv"] = "ok"

\* C11: the byte counter never decreases across a successful send: what
\* GetTotalBytesSent returns after the send is at least what it returned
\* before it, whatever the total of the bytes sent so far.
C11_NeverDecreases ==
  [][SrvSendReturns => LeqCount(GetTotalBytesSent, GetTotalBytesSent')]_vars

\* A step of a receive operation of the server: its call, one of its OS
\* calls, its return or the end of the process out of it (and whatever else
\* happens while it is under way).
SrvRecvStep ==
  /\ opk'["srv"] \in RecvKinds
  /\ pcs["srv"] \in IoPcs \/ pcs'["srv"] \in IoPcs

\* C12: no receive operation (RecvValue, RecvVector, RecvArray of 2 or 4)
\* changes the byte counter, whether it succeeds or fails: GetTotalBytesSent
\* is the same after every step of it as before.
C12_RecvLeavesCounter ==
  [][SrvRecvStep => GetTotalBytesSent' = GetTotalBytesSent]_vars

\* The server has received a vector while its counter stood at 2^32 - 8.
C12_RecvDone ==
  /\ opk["srv"] = "RecvVector"
  /\ res["srv"] = "ok"
  /\ var["srv"] = <<1, 1090650884>>
  /\ GetTotalBytesSent = LongCount

\* The process has ended out of Setup or Start: with a non-zero status,
\* without a close() of its own, and with the descriptor of the failed
\* operation not listening (Setup), not open (Start).
StartupFatalState ==
  died \in {"Setup", "Start"} =>
    /\ proc = "exited"
    /\ status = ExitFailure
    /\ status # 0
    /\ closes = <<>>
    /\ died = "Setup" =>
         /\ failed \in SetupSteps \ {"done"}
         /\ server_fd_ \in Fds => fdtab[server_fd_] # "listen"
    /\ died = "Start" =>
         /\ failed = "accept"
         /\ client_fd_ = NotOpen
         /\ ConnOf(client_fd_) = "none"

\* The step in which a call of Setup or Start fails: the process ends in
\* that step; the new socket is as the calls before the failed one left it
\* (no later call has acted on it); no descriptor that was open is closed,
\* and nothing else in the table changes.
StartupFatalStep ==
  (died = "" /\ died' \in {"Setup", "Start"}) =>
    /\ proc' = "exited"
    /\ closeCalled' = closeCalled
    /\ doubleClose' = doubleClose
    /\ \A f \in Fds : fdtab[f] # "free" => fdtab'[f] = fdtab[f]
    /\ died' = "Start" => fdtab' = fdtab /\ server_fd_' = server_fd_
    /\ died' = "Setup" =>
         /\ client_fd_' = client_fd_
         /\ IF failed' = "socket"
            THEN server_fd_' = NotOpen /\ fdtab' = fdtab
            ELSE /\ server_fd_' \in Fds
                 /\ fdtab[server_fd_'] = "free"
                 /\ \A f \in Fds \ {server_fd_'} : fdtab'[f] = fdtab[f]
                 /\ failed' = "setsockopt" => fdtab'[server_fd_'] = "sock"
                 /\ failed' = "bind" => fdtab'[server_fd_'] = "reuse"
                 /\ failed' = "listen" => fdtab'[server_fd_'] = "bound"

\* C13: when socket(), setsockopt(), bind() or listen() in Setup, or
\* accept() in Start, fails, the process ends at once with a non-zero
\* status: the socket does not come to listen (the connection does not come
\* to be) after the failed call, no later call of the operation is made, and
\* no descriptor is closed by the program on the way.
C13_StartupFatal == []StartupFatalState /\ [][StartupFatalStep]_vars

\* listen() failed in a Setup that had bound its socket.
C13_ListenFailed ==
  /\ died = "Setup"
  /\ failed = "listen"
  /\ server_fd_ \in Fds
  /\ fdtab[server_fd_] = "bound"
  /\ proc = "exited"

\* Descriptors of accepted connections that client_fd_ does not hold.
Overwritten == {f \in Fds : fdtab[f] \in Peers /\ f # client_fd_}

\* A step of Start that accepts a client while client_fd_ holds a connection.
SecondStart ==
  /\ ConnOf(client_fd_) # "none"
  /\ client_fd_' # client_fd_
  /\ died' = ""

\* C14: a Start on a Server that holds a connection stores the new
\* descriptor over the old one and leaves the old one open; from then on the
\* server's transfers put bytes on, and take bytes from, the connection of
\* client_fd_ alone, and no close() of the program (CloseSocket, ~Server, the
\* fatal teardown) is ever issued on an overwritten descriptor.
C14_Overwritten ==
  [][/\ SecondStart =>
          /\ client_fd_ \in Overwritten'
          /\ client_fd_' \in Fds
          /\ fdtab'[client_fd_'] \in Peers \ {ConnOf(client_fd_)}
          /\ srvSide'[ConnOf(client_fd_)] = srvSide[ConnOf(client_fd_)]
     /\ \A f \in Overwritten : fdtab'[f] = fdtab[f]
     /\ (proc' = "running" /\ obj' = "alive") =>
          \A p \in Peers \ {ConnOf(client_fd_)} :
            /\ Len(s2c'[p]) <= Len(s2c[p])
            /\ Len(c2s'[p]) >= Len(c2s[p])
            /\ log'[p].stx = log[p].stx
            /\ log'[p].srx = log[p].srx]_vars

\* After a second Start the server sent a value that the second client
\* received, and CloseSocket has run: the first client's descriptor is open.
C14_FirstLeftOpen ==
  /\ closeCalled
  /\ client_fd_ \in Fds
  /\ fdtab[client_fd_] = "free"
  /\ \E f \in Fds : fdtab[f] = "p1"
  /\ log["p2"].stx # <<>>
  /\ log["p2"].prx = log["p2"].stx

\* C15: the payload bytes that RecvVector's second transfer writes into
\* r_vector never exceed the bytes r_vector has, 4 * floor(S / 4) for the
\* declared size S, whether or not S is a multiple of 4.
C15_WithinBuffer ==
  \A e \in Ends :
    (opk[e] = "RecvVector" /\ pcs[e] # "io1") =>
      Len(buf[e]) <= SizeofU32 * (len[e] \div SizeofU32)

\* C16: SendVector and RecvVector attempt the payload transfer only after
\* the transfer of the size prefix has succeeded: while the second transfer
\* of either is under way (r_vector made from the size received, send() or
\* recv() issued for the payload), is_sent / is_received is true.
C16_PayloadAfterPrefix ==
  \A e \in Ends :
    (opk[e] \in VectorKinds /\ pcs[e] = "io2") => ok[e]

AllShapes == {"Value", "Vector", "Array2", "Array4"}

\* C17: when one end of a connection has sent a sequence of values of mixed
\* kinds (SendValue, SendVector, SendArray of 2 and of 4) and the other end
\* receives with the matching operations in the same order, each receive
\* that returns yields the value sent at its position, however the stream
\* delivers the bytes.
C17_InOrder ==
  \A p \in Peers :
    /\ RoundTrip(log[p].stx, log[p].prx, AllShapes)
    /\ RoundTrip(log[p].ptx, log[p].srx, AllShapes)

\* The server has received a vector and then a scalar that the peer sent in
\* that order.
C17_TwoArrived ==
  \E p \in Peers :
    /\ log[p].ptx = <<[k |-> "Vector", v |-> <<1090650884>>],
                      [k |-> "Value", v |-> <<1>>]>>
    /\ log[p].srx = log[p].ptx

\* A RecvVector that did not return to its caller has left the caller's
\* vector as one of the vectors callers pass in.
FailedVectorState ==
  \A e \in Ends :
    (opk[e] = "RecvVector" /\ res[e] \in {"fatal", "aborted"}) =>
      var[e] \in StaleVectors

\* No step of a RecvVector under way changes the caller's vector unless the
\* operation returns to its caller in that step.
FailedVectorStep ==
  \A e \in Ends :
    (/\ opk[e] = "RecvVector"
     /\ pcs[e] \in IoPcs
     /\ opk'[e] = "RecvVector"
     /\ res'[e] # "ok") => var'[e] = var[e]

\* C18: RecvVector assigns the caller's vector only after the transfer of
\* the size prefix and that of the payload have both succeeded; on every
\* path that fails the vector holds, when the connection is torn down, the
\* value it had before the call.
C18_VectorKept == []FailedVectorState /\ [][FailedVectorStep]_vars

\* RecvVector of the server failed after part of the payload had arrived in
\* r_vector; the caller's vector is as it was.
C18_FailedInPayload ==
  /\ opk["srv"] = "RecvVector"
  /\ res["srv"] = "fatal"
  /\ var["srv"] = <<StaleValue, StaleValue>>
  /\ buf["srv"] = <<RawByte, RawByte, RawByte, RawByte>>
  /\ len["srv"] > Len(buf["srv"])

====
